---- MODULE Spec2Model ----
(***************************************************************************)
(* A model of auto_ec2_alarms.py: the per-instance alarm rule engine       *)
(* (process_instance), the per-page thread pool fan-out/fan-in and the     *)
(* batched create-then-tag submission driven by create_ec2_alarms.         *)
(*                                                                         *)
(* Python dicts are records; an optional key is a field that is absent.    *)
(* Strings the code only concatenates or compares are TLA+ strings;        *)
(* strings the code transforms or searches (Platform through .lower(), a   *)
(* topic ARN through "in") are sequences of one-character strings.         *)
(***************************************************************************)
EXTENDS Integers, Sequences, FiniteSets, TLC

VARIABLES
    \* run configuration (the module globals of the __main__ block)
    instance_ids, instance_tag_name, instance_tag_value,
    \* main thread of create_ec2_alarms
    pc, error, iam_response, account_alias, sns_topic_arn,
    remaining, fetched, to_submit, futures, next_future, all_alarm_configs,
    batch_i, batch_j,
    \* the external services as seen from the program
    calls, metrics_seen, attempts, cw_alarms, cw_tags, faults,
    \* a single application of the rule engine (specification SpecRule)
    r_pc, r_instance, r_response, r_result, r_called

run_vars == <<instance_ids, instance_tag_name, instance_tag_value,
              pc, error, iam_response, account_alias, sns_topic_arn,
              remaining, fetched, to_submit, futures, next_future,
              all_alarm_configs, batch_i, batch_j,
              calls, metrics_seen, attempts, cw_alarms, cw_tags, faults>>

rule_vars == <<r_pc, r_instance, r_response, r_result, r_called>>

vars == <<run_vars, rule_vars>>

---------------------------------------------------------------------------
(* Bounds of the model *)

\* longest metric catalog a rule-engine application is given
MaxSamples == 3
\* most instances the discovery service puts on one page
MaxPageLen == 2
\* most create/tag failures injected during one submission phase
MaxFaults == 2

---------------------------------------------------------------------------
(* Python helpers *)

\* dict.get(key, default)
DictGet(d, key, default) == IF key \in DOMAIN d THEN d[key] ELSE default

Min(a, b) == IF a < b THEN a ELSE b

UpperChars == <<"A","B","C","D","E","F","G","H","I","J","K","L","M",
                "N","O","P","Q","R","S","T","U","V","W","X","Y","Z">>
LowerChars == <<"a","b","c","d","e","f","g","h","i","j","k","l","m",
                "n","o","p","q","r","s","t","u","v","w","x","y","z">>

LowerChar(c) ==
    IF \E i \in DOMAIN UpperChars : UpperChars[i] = c
    THEN LowerChars[CHOOSE i \in DOMAIN UpperChars : UpperChars[i] = c]
    ELSE c

\* str.lower()
lower(s) == [i \in DOMAIN s |-> LowerChar(s[i])]

\* "needle in haystack" on strings
IsSubstring(needle, haystack) ==
    \E i \in 0..(Len(haystack) - Len(needle)) :
        SubSeq(haystack, i + 1, i + Len(needle)) = needle

---------------------------------------------------------------------------
(* Module globals set in the __main__ block *)

alarm_prefix == "gl"
alarm_tag == "gl_monitoring"
sns_topic_name == <<"I", "T">>
batch_size == 10
max_workers == 10

linux == <<"l","i","n","u","x">>
windows == <<"w","i","n","d","o","w","s">>

---------------------------------------------------------------------------
(* The account: instances, metric samples *)

Tag(k, v) == [Key |-> k, Value |-> v]
Dim(n, v) == [Name |-> n, Value |-> v]

\* web1: a named Linux instance (no Platform key), selected by the tag filter
InstA == [InstanceId |-> "i-1", InstanceType |-> "t3.micro", ImageId |-> "ami-1",
          Tags |-> <<Tag("gl_env", "prod"), Tag("Name", "web1")>>]
\* db1: a named Windows instance, as EC2 reports it
InstB == [InstanceId |-> "i-2", InstanceType |-> "m5.large", ImageId |-> "ami-2",
          Platform |-> <<"W","i","n","d","o","w","s">>,
          Tags |-> <<Tag("Name", "db1"), Tag("gl_env", "prod")>>]
\* a Linux instance with tags but no Name tag
InstC == [InstanceId |-> "i-3", InstanceType |-> "t3.micro", ImageId |-> "ami-1",
          Tags |-> <<Tag("gl_env", "prod")>>]
\* a Windows instance with no Tags key and no ImageId key
InstD == [InstanceId |-> "i-4", InstanceType |-> "m5.large",
          Platform |-> windows]

Inventory == <<InstA, InstB, InstC, InstD>>

\* further descriptors the rule engine is applied to
InstE == [InstanceId |-> "i-5", InstanceType |-> "m5.large", ImageId |-> "ami-2",
          Platform |-> <<"W","I","N","D","O","W","S">>,
          Tags |-> <<Tag("Name", "db2")>>]
InstF == [InstanceId |-> "i-6", InstanceType |-> "t3.micro", ImageId |-> "ami-1",
          Platform |-> <<"L","i","n","u","x">>,
          Tags |-> <<Tag("Name", "web2")>>]
InstG == [InstanceId |-> "i-7", InstanceType |-> "mac1.metal", ImageId |-> "ami-3",
          Platform |-> <<"m","a","c","o","s">>,
          Tags |-> <<Tag("Name", "mac1")>>]

RuleInstances == {InstA, InstB, InstC, InstD, InstE, InstF, InstG}

MemSample(id) ==
    [MetricName |-> "mem_used_percent",
     Dimensions |-> <<Dim("InstanceId", id)>>]
DiskSample(id, path) ==
    [MetricName |-> "disk_used_percent",
     Dimensions |-> <<Dim("InstanceId", id), Dim("path", path), Dim("fstype", "ext4")>>]
\* another metric that carries path = "/"
InodeSample(id) ==
    [MetricName |-> "disk_inodes_free",
     Dimensions |-> <<Dim("path", "/"), Dim("InstanceId", id)>>]
\* a disk_used_percent sample whose "/" sits under another dimension name
DiskDeviceSample(id) ==
    [MetricName |-> "disk_used_percent",
     Dimensions |-> <<Dim("InstanceId", id), Dim("device", "/")>>]

SampleUniverse(id) ==
    {MemSample(id), DiskSample(id, "/"), DiskSample(id, "/data"),
     InodeSample(id), DiskDeviceSample(id)}

SeqsUpTo(S, n) == UNION {[1..k -> S] : k \in 0..n}

\* list_metrics responses: a Metrics list, or no Metrics key at all
CatalogResponses(id) ==
    {[Metrics |-> m] : m \in SeqsUpTo(SampleUniverse(id), MaxSamples)}
        \cup {[ResponseMetadata |-> "ok"]}

\* the outcome of a list_metrics call that raises
CatalogError == [Error |-> "EndpointConnectionError"]

---------------------------------------------------------------------------
(* process_instance: the alarm rule engine *)

RECURSIVE FirstNameTag(_, _)
\* next((tag['Value'] for tag in Tags if tag['Key'] == 'Name'), 'UnnamedInstance')
FirstNameTag(tags, k) ==
    IF k > Len(tags) THEN "UnnamedInstance"
    ELSE IF tags[k].Key = "Name" THEN tags[k].Value
    ELSE FirstNameTag(tags, k + 1)

InstanceName(instance) == FirstNameTag(DictGet(instance, "Tags", <<>>), 1)

\* the platform read without folding its case
PlatformOf_nofold(instance) == DictGet(instance, "Platform", linux)

\* instance.get('Platform', 'linux').lower()
PlatformOf(instance) == lower(DictGet(instance, "Platform", linux))

AlarmName(alias, instance_name, suffix) ==
    alarm_prefix \o "_" \o alias \o "_ec2_" \o instance_name \o "_" \o suffix

base_alarm(arn) ==
    [ActionsEnabled |-> TRUE,
     AlarmActions |-> <<arn>>,
     OKActions |-> <<arn>>,
     Statistic |-> "Average",
     Period |-> 60,
     EvaluationPeriods |-> 5,
     TreatMissingData |-> "breaching"]

\* {**base_alarm, 'AlarmName': ..., ...}
Alarm(arn, name, metric, namespace, dimensions, threshold, operator) ==
    [AlarmName |-> name,
     MetricName |-> metric,
     Namespace |-> namespace,
     Dimensions |-> dimensions,
     Threshold |-> threshold,
     ComparisonOperator |-> operator] @@ base_alarm(arn)

StatusCheckAlarm(instance, alias, arn) ==
    Alarm(arn, AlarmName(alias, InstanceName(instance), "status-check"),
          "StatusCheckFailed", "AWS/EC2",
          <<Dim("InstanceId", instance.InstanceId)>>,
          1, "GreaterThanOrEqualToThreshold")

CpuAlarm(instance, alias, arn) ==
    Alarm(arn, AlarmName(alias, InstanceName(instance), "cpu-used"),
          "CPUUtilization", "AWS/EC2",
          <<Dim("InstanceId", instance.InstanceId)>>,
          95, "GreaterThanOrEqualToThreshold")

\* the root-path test with the value comparison left out
IsRootPath_anyvalue(dimension) == dimension.Name = "path"

\* dimension['Name'] == 'path' and dimension['Value'] == '/'
IsRootPath(dimension) == dimension.Name = "path" /\ dimension.Value = "/"

RECURSIVE DiskLoop(_, _, _)
\* for dimension in dimensions: one disk-used alarm per matching dimension
DiskLoop(dimensions, k, alarm) ==
    IF k > Len(dimensions) THEN <<>>
    ELSE (IF IsRootPath(dimensions[k]) THEN <<alarm>> ELSE <<>>)
         \o DiskLoop(dimensions, k + 1, alarm)

\* the alarms one catalog sample contributes
SampleAlarms(metric, instance, alias, arn) ==
    (IF metric.MetricName = "mem_used_percent"
     THEN <<Alarm(arn, AlarmName(alias, InstanceName(instance), "mem-used"),
                  metric.MetricName, "CWAgent", metric.Dimensions,
                  95, "GreaterThanOrEqualToThreshold")>>
     ELSE <<>>)
    \o
    (IF metric.MetricName = "disk_used_percent"
     THEN DiskLoop(metric.Dimensions, 1,
                   Alarm(arn, AlarmName(alias, InstanceName(instance), "disk-used"),
                         metric.MetricName, "CWAgent", metric.Dimensions,
                         95, "GreaterThanOrEqualToThreshold"))
     ELSE <<>>)

RECURSIVE MetricLoop(_, _, _, _, _)
\* for metric in metrics_available
MetricLoop(metrics, k, instance, alias, arn) ==
    IF k > Len(metrics) THEN <<>>
    ELSE SampleAlarms(metrics[k], instance, alias, arn)
         \o MetricLoop(metrics, k + 1, instance, alias, arn)

LinuxAlarms(instance, alias, arn, response) ==
    MetricLoop(DictGet(response, "Metrics", <<>>), 1, instance, alias, arn)

WindowsAlarms(instance, alias, arn) ==
    LET image_id == DictGet(instance, "ImageId", "UnknownImage")
    IN  << Alarm(arn, AlarmName(alias, InstanceName(instance), "mem-used"),
                 "Memory % Committed Bytes In Use", "CWAgent",
                 <<Dim("InstanceId", instance.InstanceId),
                   Dim("ImageId", image_id),
                   Dim("objectname", "Memory"),
                   Dim("InstanceType", instance.InstanceType)>>,
                 95, "GreaterThanOrEqualToThreshold"),
           Alarm(arn, AlarmName(alias, InstanceName(instance), "disk-used"),
                 "LogicalDisk % Free Space", "CWAgent",
                 <<Dim("InstanceId", instance.InstanceId),
                   Dim("ImageId", image_id),
                   Dim("objectname", "LogicalDisk"),
                   Dim("InstanceType", instance.InstanceType),
                   Dim("instance", "C:")>>,
                 5, "LessThanOrEqualToThreshold") >>

\* whether process_instance calls list_metrics for this instance
CallsCatalog(instance) == PlatformOf(instance) = linux

\* process_instance, given the list_metrics response it gets (read only on
\* the Linux branch); the call raising is handled by the caller of this
\* operator, since nothing in process_instance catches it
process_instance(instance, alias, arn, response) ==
    <<StatusCheckAlarm(instance, alias, arn), CpuAlarm(instance, alias, arn)>>
    \o (IF PlatformOf(instance) = linux
        THEN LinuxAlarms(instance, alias, arn, response)
        ELSE IF PlatformOf(instance) = windows
        THEN WindowsAlarms(instance, alias, arn)
        ELSE <<>>)

---------------------------------------------------------------------------
(* SpecRule: process_instance applied once to a descriptor and a catalog *)

RuleAlias == "acme"
RuleArn == <<"a", ":", "I", "T">>

InitRunIdle ==
    /\ instance_ids = <<>>
    /\ instance_tag_name = ""
    /\ instance_tag_value = ""
    /\ pc = "idle"
    /\ error = "none"
    /\ iam_response = [ResponseMetadata |-> "ok"]
    /\ account_alias = RuleAlias
    /\ sns_topic_arn = RuleArn
    /\ remaining = <<>>
    /\ fetched = FALSE
    /\ to_submit = <<>>
    /\ futures = <<>>
    /\ next_future = 1
    /\ all_alarm_configs = <<>>
    /\ batch_i = 0
    /\ batch_j = 1
    /\ calls = {}
    /\ metrics_seen = <<>>
    /\ attempts = <<>>
    /\ cw_alarms = {}
    /\ cw_tags = {}
    /\ faults = 0

InitRule ==
    /\ InitRunIdle
    /\ r_pc = "call"
    /\ r_instance \in RuleInstances
    /\ r_response \in CatalogResponses(r_instance.InstanceId) \cup {CatalogError}
    /\ r_result = <<>>
    /\ r_called = FALSE

\* process_instance on a branch that makes no service call
RuleStatic ==
    /\ r_pc = "call"
    /\ ~CallsCatalog(r_instance)
    /\ r_pc' = "returned"
    /\ r_result' = process_instance(r_instance, RuleAlias, RuleArn, r_response)
    /\ UNCHANGED <<r_instance, r_response, r_called>>
    /\ UNCHANGED run_vars

\* process_instance on the Linux branch, list_metrics answering
RuleCatalog ==
    /\ r_pc = "call"
    /\ CallsCatalog(r_instance)
    /\ r_response # CatalogError
    /\ r_pc' = "returned"
    /\ r_called' = TRUE
    /\ r_result' = process_instance(r_instance, RuleAlias, RuleArn, r_response)
    /\ UNCHANGED <<r_instance, r_response>>
    /\ UNCHANGED run_vars

\* process_instance on the Linux branch, list_metrics raising
RuleCatalogRaises ==
    /\ r_pc = "call"
    /\ CallsCatalog(r_instance)
    /\ r_response = CatalogError
    /\ r_pc' = "raised"
    /\ r_called' = TRUE
    /\ UNCHANGED <<r_instance, r_response, r_result>>
    /\ UNCHANGED run_vars

NextRule == RuleStatic \/ RuleCatalog \/ RuleCatalogRaises

SpecRule == InitRule /\ [][NextRule]_vars

---------------------------------------------------------------------------
(* The external services a run of create_ec2_alarms talks to *)

\* list_account_aliases responses: no alias, one alias, no AccountAliases key
IamResponses ==
    {[AccountAliases |-> <<>>],
     [AccountAliases |-> <<"acme">>],
     [ResponseMetadata |-> "ok"]}

IamPending == [Pending |-> TRUE]
IamError == [Error |-> "AccessDenied"]

Topic(arn) == [TopicArn |-> arn]
TopicIT == Topic(<<"a", ":", "I", "T">>)
TopicOther == Topic(<<"a", ":", "O", "p", "s">>)

\* what list_topics can page out
TopicPageLists ==
    {<< [Topics |-> <<TopicIT>>] >>,
     << [Topics |-> <<TopicOther>>], [Topics |-> <<TopicOther, TopicIT>>] >>,
     << [ResponseMetadata |-> "ok"], [Topics |-> <<TopicIT, TopicOther>>] >>,
     << [Topics |-> <<TopicOther>>] >>,
     << [Topics |-> <<>>] >>}

NotFound == <<>>

RECURSIVE FindInTopics(_, _, _)
\* for topic in page.get('Topics', []): if topic_name in topic['TopicArn']
FindInTopics(topics, k, topic_name) ==
    IF k > Len(topics) THEN NotFound
    ELSE IF IsSubstring(topic_name, topics[k].TopicArn) THEN topics[k].TopicArn
    ELSE FindInTopics(topics, k + 1, topic_name)

RECURSIVE FindInPages(_, _, _)
\* for page in paginator.paginate(): the first match is returned
FindInPages(pages, k, topic_name) ==
    IF k > Len(pages) THEN NotFound
    ELSE LET hit == FindInTopics(DictGet(pages[k], "Topics", <<>>), 1, topic_name)
         IN  IF hit # NotFound THEN hit
             ELSE FindInPages(pages, k + 1, topic_name)

\* the list_metrics responses a run sees
RunCatalogResponses(id) ==
    {[Metrics |-> <<>>],
     [Metrics |-> <<MemSample(id), DiskSample(id, "/")>>],
     [Metrics |-> <<DiskSample(id, "/"), MemSample(id)>>]}

HasTag(instance, k, v) ==
    \E t \in DOMAIN DictGet(instance, "Tags", <<>>) :
        instance.Tags[t].Key = k /\ instance.Tags[t].Value = v

\* describe_instances(InstanceIds=ids) / describe_instances(Filters=[tag:k = v])
Discovered(ids, tag_name, tag_value) ==
    IF Len(ids) > 0
    THEN SelectSeq(Inventory,
                   LAMBDA inst : \E k \in DOMAIN ids : ids[k] = inst.InstanceId)
    ELSE SelectSeq(Inventory, LAMBDA inst : HasTag(inst, tag_name, tag_value))

\* the ways one page's instances are grouped into reservations
ReservationSplits(insts) ==
    {[k \in DOMAIN insts |-> [Instances |-> <<insts[k]>>]],
     IF insts = <<>> THEN <<>> ELSE <<[Instances |-> insts]>>}

RECURSIVE FlattenPage(_, _)
\* for reservation in page['Reservations']: for instance in reservation['Instances']
FlattenPage(reservations, k) ==
    IF k > Len(reservations) THEN <<>>
    ELSE reservations[k].Instances \o FlattenPage(reservations, k + 1)

---------------------------------------------------------------------------
(* Spec: one run of create_ec2_alarms *)

Init ==
    /\ \/ /\ instance_ids = <<>>
          /\ instance_tag_name \in {"", "gl_env"}
          /\ instance_tag_value \in {"", "prod"}
       \/ /\ instance_ids = <<"i-3", "i-4">>
          /\ instance_tag_name = "gl_env"
          /\ instance_tag_value = "prod"
    /\ pc = "iam"
    /\ error = "none"
    /\ iam_response = IamPending
    /\ account_alias = ""
    /\ sns_topic_arn = <<>>
    /\ remaining = <<>>
    /\ fetched = FALSE
    /\ to_submit = <<>>
    /\ futures = <<>>
    /\ next_future = 1
    /\ all_alarm_configs = <<>>
    /\ batch_i = 0
    /\ batch_j = 1
    /\ calls = {}
    /\ metrics_seen = <<>>
    /\ attempts = <<>>
    /\ cw_alarms = {}
    /\ cw_tags = {}
    /\ faults = 0
    /\ r_pc = "idle"
    /\ r_instance = InstA
    /\ r_response = [Metrics |-> <<>>]
    /\ r_result = <<>>
    /\ r_called = FALSE

\* list_account_aliases().get('AccountAliases', ['default-account'])[0]
ListAccountAliases ==
    /\ pc = "iam"
    /\ \E response \in IamResponses :
          LET aliases == DictGet(response, "AccountAliases", <<"default-account">>)
          IN  /\ iam_response' = response
              /\ IF Len(aliases) = 0
                 THEN /\ pc' = "error"
                      /\ error' = "IndexError"
                      /\ UNCHANGED account_alias
                 ELSE /\ pc' = "sns"
                      /\ account_alias' = aliases[1]
                      /\ UNCHANGED error
    /\ calls' = calls \cup {"iam:ListAccountAliases"}
    /\ UNCHANGED <<instance_ids, instance_tag_name, instance_tag_value,
                   sns_topic_arn, remaining, fetched, to_submit, futures,
                   next_future, all_alarm_configs, batch_i, batch_j,
                   metrics_seen, attempts, cw_alarms, cw_tags, faults>>
    /\ UNCHANGED rule_vars

\* the list_account_aliases call itself raising
ListAccountAliasesRaises ==
    /\ pc = "iam"
    /\ iam_response' = IamError
    /\ pc' = "error"
    /\ error' = "iam"
    /\ calls' = calls \cup {"iam:ListAccountAliases"}
    /\ UNCHANGED <<instance_ids, instance_tag_name, instance_tag_value,
                   account_alias, sns_topic_arn, remaining, fetched, to_submit,
                   futures, next_future, all_alarm_configs, batch_i, batch_j,
                   metrics_seen, attempts, cw_alarms, cw_tags, faults>>
    /\ UNCHANGED rule_vars

\* get_sns_topic_arn: the first topic whose ARN contains the name, else ValueError
GetSnsTopicArn ==
    /\ pc = "sns"
    /\ \E pages \in TopicPageLists :
          LET arn == FindInPages(pages, 1, sns_topic_name)
          IN  IF arn = NotFound
              THEN /\ pc' = "error"
                   /\ error' = "sns"
                   /\ UNCHANGED sns_topic_arn
              ELSE /\ pc' = "validate"
                   /\ sns_topic_arn' = arn
                   /\ UNCHANGED error
    /\ calls' = calls \cup {"sns:ListTopics"}
    /\ UNCHANGED <<instance_ids, instance_tag_name, instance_tag_value,
                   iam_response, account_alias, remaining, fetched, to_submit,
                   futures, next_future, all_alarm_configs, batch_i, batch_j,
                   metrics_seen, attempts, cw_alarms, cw_tags, faults>>
    /\ UNCHANGED rule_vars

\* not instance_ids and (not instance_tag_name or not instance_tag_value)
InvalidSelection(ids, tag_name, tag_value) ==
    Len(ids) = 0 /\ (tag_name = "" \/ tag_value = "")

\* the selection check, then the paginator of the chosen mode is set up
Validate ==
    /\ pc = "validate"
    /\ IF InvalidSelection(instance_ids, instance_tag_name, instance_tag_value)
       THEN /\ pc' = "error"
            /\ error' = "config"
            /\ UNCHANGED remaining
       ELSE /\ pc' = "paginate"
            /\ remaining' = Discovered(instance_ids, instance_tag_name,
                                       instance_tag_value)
            /\ UNCHANGED error
    /\ UNCHANGED <<instance_ids, instance_tag_name, instance_tag_value,
                   iam_response, account_alias, sns_topic_arn, fetched,
                   to_submit, futures, next_future, all_alarm_configs,
                   batch_i, batch_j, calls, metrics_seen, attempts,
                   cw_alarms, cw_tags, faults>>
    /\ UNCHANGED rule_vars

\* for page in paginator.paginate(...): the next page arrives and a pool
\* is opened for it
FetchPage ==
    /\ pc = "paginate"
    /\ ~fetched \/ remaining # <<>>
    /\ \E n \in (IF remaining = <<>> THEN {0}
                 ELSE 1..Min(MaxPageLen, Len(remaining))) :
          \E reservations \in ReservationSplits(SubSeq(remaining, 1, n)) :
              /\ to_submit' = FlattenPage(reservations, 1)
              /\ remaining' = SubSeq(remaining, n + 1, Len(remaining))
    /\ fetched' = TRUE
    /\ futures' = <<>>
    /\ next_future' = 1
    /\ pc' = "page"
    /\ calls' = calls \cup {"ec2:DescribeInstances"}
    /\ UNCHANGED <<instance_ids, instance_tag_name, instance_tag_value,
                   error, iam_response, account_alias, sns_topic_arn,
                   all_alarm_configs, batch_i, batch_j, metrics_seen,
                   attempts, cw_alarms, cw_tags, faults>>
    /\ UNCHANGED rule_vars

\* describe_instances raising while a page is fetched
FetchPageRaises ==
    /\ pc = "paginate"
    /\ ~fetched \/ remaining # <<>>
    /\ pc' = "error"
    /\ error' = "ec2"
    /\ calls' = calls \cup {"ec2:DescribeInstances"}
    /\ UNCHANGED <<instance_ids, instance_tag_name, instance_tag_value,
                   iam_response, account_alias, sns_topic_arn, remaining,
                   fetched, to_submit, futures, next_future,
                   all_alarm_configs, batch_i, batch_j, metrics_seen,
                   attempts, cw_alarms, cw_tags, faults>>
    /\ UNCHANGED rule_vars

\* futures.append(executor.submit(process_instance, instance, ...))
SubmitTask ==
    /\ pc = "page"
    /\ to_submit # <<>>
    /\ futures' = Append(futures, [instance |-> Head(to_submit),
                                   state |-> "queued",
                                   result |-> <<>>])
    /\ to_submit' = Tail(to_submit)
    /\ UNCHANGED <<instance_ids, instance_tag_name, instance_tag_value,
                   pc, error, iam_response, account_alias, sns_topic_arn,
                   remaining, fetched, next_future, all_alarm_configs,
                   batch_i, batch_j, calls, metrics_seen, attempts,
                   cw_alarms, cw_tags, faults>>
    /\ UNCHANGED rule_vars

Running(fs) == {w \in DOMAIN fs : fs[w].state = "running"}

\* a pool thread takes a submitted task
WorkerStart(w) ==
    /\ futures[w].state = "queued"
    /\ Cardinality(Running(futures)) < max_workers
    /\ futures' = [futures EXCEPT ![w].state = "running"]
    /\ UNCHANGED <<instance_ids, instance_tag_name, instance_tag_value,
                   pc, error, iam_response, account_alias, sns_topic_arn,
                   remaining, fetched, to_submit, next_future,
                   all_alarm_configs, batch_i, batch_j, calls, metrics_seen,
                   attempts, cw_alarms, cw_tags, faults>>
    /\ UNCHANGED rule_vars

\* process_instance returning on a branch that makes no service call
WorkerStatic(w) ==
    /\ futures[w].state = "running"
    /\ ~CallsCatalog(futures[w].instance)
    /\ futures' = [futures EXCEPT
                      ![w].state = "finished",
                      ![w].result = process_instance(futures[w].instance,
                                        account_alias, sns_topic_arn,
                                        [Metrics |-> <<>>])]
    /\ UNCHANGED <<instance_ids, instance_tag_name, instance_tag_value,
                   pc, error, iam_response, account_alias, sns_topic_arn,
                   remaining, fetched, to_submit, next_future,
                   all_alarm_configs, batch_i, batch_j, calls, metrics_seen,
                   attempts, cw_alarms, cw_tags, faults>>
    /\ UNCHANGED rule_vars

\* process_instance returning on the Linux branch, list_metrics answering
WorkerCatalog(w) ==
    /\ futures[w].state = "running"
    /\ CallsCatalog(futures[w].instance)
    /\ \E response \in RunCatalogResponses(futures[w].instance.InstanceId) :
          /\ metrics_seen' =
                 (futures[w].instance.InstanceId :> response) @@ metrics_seen
          /\ futures' = [futures EXCEPT
                            ![w].state = "finished",
                            ![w].result = process_instance(futures[w].instance,
                                              account_alias, sns_topic_arn,
                                              response)]
    /\ calls' = calls \cup {"cloudwatch:ListMetrics"}
    /\ UNCHANGED <<instance_ids, instance_tag_name, instance_tag_value,
                   pc, error, iam_response, account_alias, sns_topic_arn,
                   remaining, fetched, to_submit, next_future,
                   all_alarm_configs, batch_i, batch_j, attempts,
                   cw_alarms, cw_tags, faults>>
    /\ UNCHANGED rule_vars

\* list_metrics raising: nothing in process_instance catches it, the
\* exception is stored in the future
WorkerCatalogRaises(w) ==
    /\ futures[w].state = "running"
    /\ CallsCatalog(futures[w].instance)
    /\ metrics_seen' =
           (futures[w].instance.InstanceId :> CatalogError) @@ metrics_seen
    /\ futures' = [futures EXCEPT ![w].state = "failed"]
    /\ calls' = calls \cup {"cloudwatch:ListMetrics"}
    /\ UNCHANGED <<instance_ids, instance_tag_name, instance_tag_value,
                   pc, error, iam_response, account_alias, sns_topic_arn,
                   remaining, fetched, to_submit, next_future,
                   all_alarm_configs, batch_i, batch_j, attempts,
                   cw_alarms, cw_tags, faults>>
    /\ UNCHANGED rule_vars

\* a result() that returns without waiting for the worker
FutureDone_nowait(f) == TRUE

\* future.result() returns (or raises) only once the worker has ended
FutureDone(f) == f.state \in {"finished", "failed"}

\* all_alarm_configs.extend(future.result()), the worker having returned
CollectResult ==
    /\ pc = "page"
    /\ to_submit = <<>>
    /\ next_future <= Len(futures)
    /\ FutureDone(futures[next_future])
    /\ futures[next_future].state # "failed"
    /\ all_alarm_configs' = all_alarm_configs \o futures[next_future].result
    /\ next_future' = next_future + 1
    /\ UNCHANGED <<instance_ids, instance_tag_name, instance_tag_value,
                   pc, error, iam_response, account_alias, sns_topic_arn,
                   remaining, fetched, to_submit, futures, batch_i, batch_j,
                   calls, metrics_seen, attempts, cw_alarms, cw_tags, faults>>
    /\ UNCHANGED rule_vars

\* future.result() re-raising the worker's exception inside the with block
CollectRaises ==
    /\ pc = "page"
    /\ to_submit = <<>>
    /\ next_future <= Len(futures)
    /\ FutureDone(futures[next_future])
    /\ futures[next_future].state = "failed"
    /\ pc' = "unwind"
    /\ error' = "worker"
    /\ UNCHANGED <<instance_ids, instance_tag_name, instance_tag_value,
                   iam_response, account_alias, sns_topic_arn, remaining,
                   fetched, to_submit, futures, next_future,
                   all_alarm_configs, batch_i, batch_j, calls, metrics_seen,
                   attempts, cw_alarms, cw_tags, faults>>
    /\ UNCHANGED rule_vars

\* executor.shutdown(wait=True): every submitted task has ended
PoolDrained(fs) == \A w \in DOMAIN fs : FutureDone(fs[w])

\* leaving the with block after the last result: back to the paginator
ExitPool ==
    /\ pc = "page"
    /\ to_submit = <<>>
    /\ next_future > Len(futures)
    /\ PoolDrained(futures)
    /\ pc' = "paginate"
    /\ UNCHANGED <<instance_ids, instance_tag_name, instance_tag_value,
                   error, iam_response, account_alias, sns_topic_arn,
                   remaining, fetched, to_submit, futures, next_future,
                   all_alarm_configs, batch_i, batch_j, calls, metrics_seen,
                   attempts, cw_alarms, cw_tags, faults>>
    /\ UNCHANGED rule_vars

\* leaving the with block with the exception: the pool is joined, then the
\* exception leaves create_ec2_alarms
ExitPoolRaising ==
    /\ pc = "unwind"
    /\ PoolDrained(futures)
    /\ pc' = "error"
    /\ UNCHANGED <<instance_ids, instance_tag_name, instance_tag_value,
                   error, iam_response, account_alias, sns_topic_arn,
                   remaining, fetched, to_submit, futures, next_future,
                   all_alarm_configs, batch_i, batch_j, calls, metrics_seen,
                   attempts, cw_alarms, cw_tags, faults>>
    /\ UNCHANGED rule_vars

\* the paginator is exhausted: the batch loop starts
StartBatches ==
    /\ pc = "paginate"
    /\ fetched
    /\ remaining = <<>>
    /\ pc' = "batch"
    /\ batch_i' = 0
    /\ batch_j' = 1
    /\ UNCHANGED <<instance_ids, instance_tag_name, instance_tag_value,
                   error, iam_response, account_alias, sns_topic_arn,
                   remaining, fetched, to_submit, futures, next_future,
                   all_alarm_configs, calls, metrics_seen, attempts,
                   cw_alarms, cw_tags, faults>>
    /\ UNCHANGED rule_vars

---------------------------------------------------------------------------
(* create_cloudwatch_alarm_batch and tag_alarm *)

\* what the monitoring and identity services do to one alarm's two calls:
\* put_metric_alarm raises; get_caller_identity raises while the resource
\* ARN is built; tag_resource raises; or all three succeed
Outcomes == {"ok", "create_fails", "identity_fails", "tag_fails"}

CreateOk(outcome) == outcome # "create_fails"

TagOk(outcome) == outcome = "ok"

\* tag_alarm called whether or not put_metric_alarm raised
TagAttempted_always(create_ok) == TRUE

\* tag_alarm follows put_metric_alarm inside the same try: it is reached
\* only when the create call did not raise
TagAttempted(create_ok) == create_ok

\* a failed create ending the loop over the batch
ContinueBatch_abort(create_ok, j, batch_len) == create_ok /\ j < batch_len

\* the try/except sits inside the for loop: the loop goes on to the next
\* alarm of the batch whatever happened to this one
ContinueBatch(create_ok, j, batch_len) == j < batch_len

\* all_alarm_configs[i:i + batch_size]
Batch(configs, i) == SubSeq(configs, i + 1, Min(i + batch_size, Len(configs)))

\* the service calls one loop iteration makes
AlarmCalls(outcome) ==
    {"cloudwatch:PutMetricAlarm"}
        \cup (IF TagAttempted(CreateOk(outcome))
              THEN {"sts:GetCallerIdentity"} ELSE {})
        \cup (IF TagAttempted(CreateOk(outcome)) /\ outcome # "identity_fails"
              THEN {"cloudwatch:TagResource"} ELSE {})

\* one iteration of the loop in create_cloudwatch_alarm_batch, tag_alarm
\* included; at the end of a batch the range loop of create_ec2_alarms
\* moves to the next slice
SubmitAlarm(outcome) ==
    /\ pc = "batch"
    /\ batch_i < Len(all_alarm_configs)
    /\ outcome # "ok" => faults < MaxFaults
    /\ LET batch == Batch(all_alarm_configs, batch_i)
           alarm_config == batch[batch_j]
           name == alarm_config.AlarmName
           idx == batch_i + batch_j
           create == [op |-> "create", idx |-> idx, name |-> name,
                      ok |-> CreateOk(outcome)]
           tag == [op |-> "tag", idx |-> idx, name |-> name,
                   ok |-> TagOk(outcome)]
       IN  /\ attempts' = attempts \o <<create>>
                 \o (IF TagAttempted(CreateOk(outcome)) THEN <<tag>> ELSE <<>>)
           /\ cw_alarms' = IF CreateOk(outcome)
                           THEN cw_alarms \cup {name} ELSE cw_alarms
           /\ cw_tags' = IF TagAttempted(CreateOk(outcome)) /\ TagOk(outcome)
                         THEN cw_tags \cup {[alarm |-> name, Key |-> alarm_tag]}
                         ELSE cw_tags
           /\ IF ContinueBatch(CreateOk(outcome), batch_j, Len(batch))
              THEN /\ batch_j' = batch_j + 1
                   /\ UNCHANGED batch_i
              ELSE /\ batch_j' = 1
                   /\ batch_i' = batch_i + batch_size
    /\ faults' = IF outcome = "ok" THEN faults ELSE faults + 1
    /\ calls' = calls \cup AlarmCalls(outcome)
    /\ UNCHANGED <<instance_ids, instance_tag_name, instance_tag_value,
                   pc, error, iam_response, account_alias, sns_topic_arn,
                   remaining, fetched, to_submit, futures, next_future,
                   all_alarm_configs, metrics_seen>>
    /\ UNCHANGED rule_vars

\* the range loop is exhausted: create_ec2_alarms returns
FinishBatches ==
    /\ pc = "batch"
    /\ batch_i >= Len(all_alarm_configs)
    /\ pc' = "done"
    /\ UNCHANGED <<instance_ids, instance_tag_name, instance_tag_value,
                   error, iam_response, account_alias, sns_topic_arn,
                   remaining, fetched, to_submit, futures, next_future,
                   all_alarm_configs, batch_i, batch_j, calls, metrics_seen,
                   attempts, cw_alarms, cw_tags, faults>>
    /\ UNCHANGED rule_vars

Next ==
    \/ ListAccountAliases
    \/ ListAccountAliasesRaises
    \/ GetSnsTopicArn
    \/ Validate
    \/ FetchPage
    \/ FetchPageRaises
    \/ SubmitTask
    \/ \E w \in DOMAIN futures : WorkerStart(w)
    \/ \E w \in DOMAIN futures : WorkerStatic(w)
    \/ \E w \in DOMAIN futures : WorkerCatalog(w)
    \/ \E w \in DOMAIN futures : WorkerCatalogRaises(w)
    \/ CollectResult
    \/ CollectRaises
    \/ ExitPool
    \/ ExitPoolRaising
    \/ StartBatches
    \/ \E outcome \in Outcomes : SubmitAlarm(outcome)
    \/ FinishBatches

Spec == Init /\ [][Next]_vars

---------------------------------------------------------------------------
(* Claims about the rule engine, checked under SpecRule *)

AlarmNames(configs) == [k \in DOMAIN configs |-> configs[k].AlarmName]

Operators(configs) == [k \in DOMAIN configs |-> configs[k].ComparisonOperator]

Thresholds(configs) == [k \in DOMAIN configs |-> configs[k].Threshold]

FourNames(alias, instance_name) ==
    <<AlarmName(alias, instance_name, "status-check"),
      AlarmName(alias, instance_name, "cpu-used"),
      AlarmName(alias, instance_name, "mem-used"),
      AlarmName(alias, instance_name, "disk-used")>>

\* the catalog holds a mem_used_percent sample
HasMemSample(response) ==
    /\ "Metrics" \in DOMAIN response
    /\ \E k \in DOMAIN response.Metrics :
          response.Metrics[k].MetricName = "mem_used_percent"

\* the catalog holds a disk_used_percent sample with a dimension path = "/"
HasRootDiskSample(response) ==
    /\ "Metrics" \in DOMAIN response
    /\ \E k \in DOMAIN response.Metrics :
          /\ response.Metrics[k].MetricName = "disk_used_percent"
          /\ \E d \in DOMAIN response.Metrics[k].Dimensions :
                /\ response.Metrics[k].Dimensions[d].Name = "path"
                /\ response.Metrics[k].Dimensions[d].Value = "/"

WINDOWS == <<"W","I","N","D","O","W","S">>

\* the descriptor's Platform spells windows in some mix of letter cases
WindowsAnyCase(instance) ==
    /\ "Platform" \in DOMAIN instance
    /\ Len(instance.Platform) = Len(windows)
    /\ \A i \in DOMAIN windows :
          instance.Platform[i] = windows[i] \/ instance.Platform[i] = WINDOWS[i]

\* C6: a Linux instance whose catalog holds a mem_used_percent sample and a
\* disk_used_percent sample with path = "/" gets exactly the four definitions
\* status-check, cpu-used, mem-used, disk-used, in that order, whatever the
\* order and number of samples in the catalog.
C6_LinuxFullSetInOrder ==
    (r_pc = "returned" /\ r_called
        /\ HasMemSample(r_response) /\ HasRootDiskSample(r_response))
    => AlarmNames(r_result) = FourNames(RuleAlias, InstanceName(r_instance))

\* C7: on the Linux branch a disk-used alarm is emitted if and only if the
\* catalog holds a disk_used_percent sample one of whose dimensions is
\* path = "/".
C7_LinuxDiskRule ==
    (r_pc = "returned" /\ r_called)
    => ((\E k \in DOMAIN r_result :
            r_result[k].AlarmName
                = AlarmName(RuleAlias, InstanceName(r_instance), "disk-used"))
        <=> HasRootDiskSample(r_response))

\* a Linux catalog with a /data disk sample and another metric at path "/",
\* but no root disk sample: no disk-used alarm came out
C7_Witness ==
    /\ r_pc = "returned"
    /\ r_called
    /\ "Metrics" \in DOMAIN r_response
    /\ \E k \in DOMAIN r_response.Metrics :
          r_response.Metrics[k] = DiskSample(r_instance.InstanceId, "/data")
    /\ \E k \in DOMAIN r_response.Metrics :
          r_response.Metrics[k] = InodeSample(r_instance.InstanceId)
    /\ ~HasRootDiskSample(r_response)
    /\ \A k \in DOMAIN r_result :
          r_result[k].AlarmName
              # AlarmName(RuleAlias, InstanceName(r_instance), "disk-used")

\* C8: for a Platform that spells windows in any letter case the rule engine
\* makes no metric-catalog call and returns exactly status-check, cpu-used,
\* mem-used, disk-used in that order, whatever the catalog would hold; the
\* disk-used definition compares <= 5, the other three compare >=.
C8_WindowsFixedSet ==
    (r_pc # "call" /\ WindowsAnyCase(r_instance))
    => /\ r_pc = "returned"
       /\ ~r_called
       /\ AlarmNames(r_result) = FourNames(RuleAlias, InstanceName(r_instance))
       /\ Operators(r_result) = <<"GreaterThanOrEqualToThreshold",
                                  "GreaterThanOrEqualToThreshold",
                                  "GreaterThanOrEqualToThreshold",
                                  "LessThanOrEqualToThreshold">>
       /\ Thresholds(r_result)[4] = 5

\* a mixed-case Windows descriptor processed while the catalog held samples
C8_Witness ==
    /\ r_pc = "returned"
    /\ WindowsAnyCase(r_instance)
    /\ r_instance.Platform # windows
    /\ HasMemSample(r_response)
    /\ Len(r_result) = 4

---------------------------------------------------------------------------
(* Claims about a run of create_ec2_alarms, checked under Spec *)

Terminal == pc \in {"done", "error"}

TheDiscovered == Discovered(instance_ids, instance_tag_name, instance_tag_value)

CreateEvents == SelectSeq(attempts, LAMBDA e : e.op = "create")

TagEvents == SelectSeq(attempts, LAMBDA e : e.op = "tag")

\* the instances whose list_metrics call raised
CatalogFailed ==
    {id \in DOMAIN metrics_seen : metrics_seen[id] = CatalogError}

\* C1: when list_metrics fails for one discovered instance the run is not
\* aborted: it ends normally, and for every other discovered instance the
\* alarms derived for it have had their create attempt.
C1_InstanceFailureIsolated ==
    (Terminal /\ CatalogFailed # {})
    => /\ pc = "done"
       /\ \A k \in DOMAIN TheDiscovered :
             TheDiscovered[k].InstanceId \notin CatalogFailed
             => \E e \in DOMAIN CreateEvents :
                   CreateEvents[e].name
                       = AlarmName(account_alias,
                                   InstanceName(TheDiscovered[k]),
                                   "status-check")

\* C2: a run given an empty instance-id list and an empty tag name or tag
\* value makes no call to any external service at any point, and when it
\* ends it has ended with the configuration error.
C2_ConfigFailFast ==
    InvalidSelection(instance_ids, instance_tag_name, instance_tag_value)
    => /\ calls = {}
       /\ Terminal => error = "config"

\* C3: a failed create or tag call for alarm k does not stop the create
\* attempts for the alarms after it, in the same batch or a later one: the
\* create attempts made so far are those of definitions 1..m of the
\* aggregate, once each and in aggregate order, m is the number of loop
\* iterations made, and at the end m is the length of the aggregate.
C3_SubmissionIsolated ==
    LET creates == CreateEvents
    IN  /\ \A k \in DOMAIN creates :
              /\ creates[k].idx = k
              /\ k <= Len(all_alarm_configs)
              /\ creates[k].name = all_alarm_configs[k].AlarmName
        /\ pc = "batch" /\ batch_i < Len(all_alarm_configs)
              => Len(creates) = batch_i + batch_j - 1
        /\ pc = "done" => Len(creates) = Len(all_alarm_configs)
        /\ attempts # <<>> => (pc \in {"batch", "done"} /\ error = "none")

\* a finished run over more than one batch in which a create failed in the
\* first batch and a tag call failed, and the last definition was attempted
C3_Witness ==
    /\ pc = "done"
    /\ Len(all_alarm_configs) > batch_size
    /\ \E k \in DOMAIN CreateEvents :
          k < batch_size /\ ~CreateEvents[k].ok
    /\ \E k \in DOMAIN TagEvents : ~TagEvents[k].ok
    /\ CreateEvents[Len(CreateEvents)].idx = Len(all_alarm_configs)

\* C4: the tag call of an alarm is attempted if and only if its create call
\* succeeded, directly after that create and at most once; when the tag
\* call fails the alarm stays created, it is not created again, and no
\* error leaves the submitter.
C4_CreateThenTag ==
    LET creates == CreateEvents
        tags == TagEvents
    IN  /\ \A k \in DOMAIN attempts :
              attempts[k].op = "tag"
              => /\ k > 1
                 /\ attempts[k - 1].op = "create"
                 /\ attempts[k - 1].idx = attempts[k].idx
                 /\ attempts[k - 1].ok
        /\ \A k \in DOMAIN attempts :
              (attempts[k].op = "create" /\ attempts[k].ok)
              => /\ k < Len(attempts)
                 /\ attempts[k + 1].op = "tag"
                 /\ attempts[k + 1].idx = attempts[k].idx
        /\ \A k, l \in DOMAIN tags : tags[k].idx = tags[l].idx => k = l
        /\ \A k \in DOMAIN tags :
              ~tags[k].ok
              => /\ tags[k].name \in cw_alarms
                 /\ Cardinality({c \in DOMAIN creates :
                                    creates[c].idx = tags[k].idx}) = 1
        /\ \A k \in DOMAIN tags :
              tags[k].ok
              => [alarm |-> tags[k].name, Key |-> alarm_tag] \in cw_tags
        /\ attempts # <<>> => error = "none"

\* a finished run in which one alarm's create failed (no tag call for it),
\* another alarm's tag call failed after its create, and a third was tagged
C4_Witness ==
    /\ pc = "done"
    /\ \E k \in DOMAIN CreateEvents : ~CreateEvents[k].ok
    /\ \E k \in DOMAIN TagEvents :
          ~TagEvents[k].ok /\ TagEvents[k].name \in cw_alarms
    /\ \E k \in DOMAIN TagEvents : TagEvents[k].ok
    /\ "cloudwatch:TagResource" \in calls

\* C5: no two definitions of the run-wide aggregate have the same AlarmName.
C5_AlarmNamesUnique ==
    \A a, b \in DOMAIN all_alarm_configs :
        a # b => all_alarm_configs[a].AlarmName # all_alarm_configs[b].AlarmName

\* the identity service answered without any alias
NoAliasConfigured(response) ==
    \/ response = [ResponseMetadata |-> "ok"]
    \/ response = [AccountAliases |-> <<>>]

\* C9: when the identity service answers with an empty alias list, or with
\* no alias list at all, the run goes on with the alias "default-account"
\* and does not fail on it.
C9_AliasFallback ==
    (pc # "iam" /\ NoAliasConfigured(iam_response))
    => (account_alias = "default-account" /\ error # "IndexError")

\* how many discovered instances have had their result appended
CollectedCount ==
    Len(TheDiscovered) - Len(remaining)
        - (IF pc = "page"
           THEN Len(to_submit) + Len(futures) - (next_future - 1)
           ELSE 0)

RECURSIVE ExpectedAggregate(_)
\* the results of the first n discovered instances, one block each, in
\* discovery order
ExpectedAggregate(n) ==
    IF n = 0 THEN <<>>
    ELSE ExpectedAggregate(n - 1)
         \o process_instance(TheDiscovered[n], account_alias, sns_topic_arn,
                DictGet(metrics_seen, TheDiscovered[n].InstanceId,
                        [Metrics |-> <<>>]))

\* C10: with no worker failing, under every interleaving of the page's
\* workers, up to the start of the submission phase the aggregate holds
\* exactly the blocks of the instances whose futures were collected, once
\* each and in rule-engine order; a future is collected only after its
\* worker has finished; and no worker of the pool is unfinished when the
\* next page or the submission phase starts.
C10_FanIn ==
    (/\ pc \in {"page", "paginate", "batch"}
     /\ attempts = <<>>
     /\ CatalogFailed = {})
    => /\ all_alarm_configs = ExpectedAggregate(CollectedCount)
       /\ \A w \in DOMAIN futures :
             w < next_future => futures[w].state = "finished"
       /\ pc # "page" => \A w \in DOMAIN futures : futures[w].state = "finished"

\* on a later page the second worker has finished while the first is still
\* running and nothing of the page has been collected yet
C10_Witness ==
    /\ pc = "page"
    /\ all_alarm_configs # <<>>
    /\ Len(futures) = 2
    /\ next_future = 1
    /\ futures[1].state = "running"
    /\ futures[2].state = "finished"
    /\ futures[2].result # <<>>

====
